---- MODULE Spec2Model ----
(***************************************************************************)
(* Intersection coordination core of the traffic simulator                 *)
(* (sim/src/intersections.rs): IntersectionSimState and its two policies,  *)
(* StopSign and TrafficSignal.                                             *)
(*                                                                         *)
(* The Map, the ControlMap and the per-step AgentInfo are inputs.  Time is *)
(* counted in ticks of 0.1 s.  The debug flags only gate println! and are  *)
(* left out.  A failed assert!/assert_eq! aborts the simulation: the model *)
(* sets panicked, keeps the state of the last completed call and stops.    *)
(* time is the simulation clock: step runs at a tick that is not before    *)
(* the clock, and the clock then passes that tick.                         *)
(***************************************************************************)
EXTENDS Integers, Sequences, FiniteSets, TLC

VARIABLES map, control_map, intersections, time, events, last, panicked

vars == <<map, control_map, intersections, time, events, last, panicked>>

(***************************************************************************)
(* Program constants                                                       *)
(***************************************************************************)
\* TurnPriority, ordered Stop < Yield < Priority
Stop == 0
Yield == 1
Priority == 2
TurnPriority == {Stop, Yield, Priority}

\* 1.5 s, in ticks of 0.1 s
WAIT_AT_STOP_SIGN == 15

\* speeds are counted in units of kinematics::EPSILON_SPEED
EPSILON_SPEED == 1

(***************************************************************************)
(* Bounds and input sets                                                   *)
(***************************************************************************)
MaxTick == 15

\* requests outstanding (pending or accepted) on the two-intersection map
MaxOutstanding == 3

\* the ticks step is called with: the first two, and those from the dwell on
Ticks == (0..1) \cup (WAIT_AT_STOP_SIGN..MaxTick)

AgentIDs == {1, 2}

Lanes == {1, 2}

Speeds == {EPSILON_SPEED, EPSILON_SPEED + 1}

TurnID(i, k) == [parent |-> i, lane |-> k]

Request(a, t) == [agent |-> a, turn |-> t]

NoRequest == [agent |-> 0, turn |-> TurnID(0, 0)]

\* the snapshots step is given; the speed of an agent that is not a leader is
\* never read, so it is fixed
AgentInfos ==
    {info \in [leaders : SUBSET AgentIDs, speeds : [AgentIDs -> Speeds]] :
        \A a \in AgentIDs \ info.leaders : info.speeds[a] = EPSILON_SPEED + 1}

(***************************************************************************)
(* Sorted containers: BTreeMap as a function, BTreeSet as a set, iterated  *)
(* in key order                                                            *)
(***************************************************************************)
EmptyMap == [k \in {} |-> 0]

MapInsert(m, k, v) == [x \in (DOMAIN m) \cup {k} |-> IF x = k THEN v ELSE m[x]]

MapRemove(m, k) == [x \in (DOMAIN m) \ {k} |-> m[x]]

MapValues(m) == {m[k] : k \in DOMAIN m}

\* derive(Ord) on TurnID: parent first
TurnLess(t, u) ==
    \/ t.parent < u.parent
    \/ t.parent = u.parent /\ t.lane < u.lane

\* mutant: requests are ordered by turn first, then by agent
RequestLess_TurnFirst(r, q) ==
    \/ TurnLess(r.turn, q.turn)
    \/ r.turn = q.turn /\ r.agent < q.agent

\* derive(Ord) on Request: agent first, then turn
RequestLess(r, q) ==
    \/ r.agent < q.agent
    \/ r.agent = q.agent /\ TurnLess(r.turn, q.turn)

RECURSIVE SortedRequests(_)
SortedRequests(S) ==
    IF S = {} THEN <<>>
    ELSE LET first == CHOOSE r \in S : \A q \in S \ {r} : RequestLess(r, q)
         IN <<first>> \o SortedRequests(S \ {first})

(***************************************************************************)
(* Map and ControlMap                                                      *)
(***************************************************************************)
IntersectionIDs == DOMAIN map.has_traffic_signal

AllTurns == {TurnID(i, k) : i \in IntersectionIDs, k \in Lanes}

AllRequests == {Request(a, t) : a \in AgentIDs, t \in AllTurns}

conflicts_with(t, u) == <<t, u>> \in map.conflicts

get_priority(turn) == control_map.stop_signs[turn.parent][turn]

\* the Cycle a signal is in: its set of green turns
CycleContains(cycle, turn) == turn \in cycle

(***************************************************************************)
(* Construction                                                            *)
(***************************************************************************)
StopSignNew(id) ==
    [kind |-> "StopSign", id |-> id, approaching_agents |-> {},
     started_waiting_at |-> EmptyMap, accepted |-> EmptyMap]

TrafficSignalNew(id) ==
    [kind |-> "TrafficSignal", id |-> id, accepted |-> EmptyMap, requests |-> {}]

IntersectionSimStateNew(m) ==
    [i \in DOMAIN m.has_traffic_signal |->
        IF m.has_traffic_signal[i] THEN TrafficSignalNew(i) ELSE StopSignNew(i)]

(***************************************************************************)
(* IntersectionSimState: queries and submit_request                        *)
(***************************************************************************)
request_granted(ints, req) ==
    LET i == ints[req.turn.parent]
    IN req.agent \in DOMAIN i.accepted /\ i.accepted[req.agent] = req.turn

\* the requests pending at a policy: approaching or waiting at a stop sign,
\* queued at a signal
Pending(p) ==
    IF p.kind = "StopSign"
    THEN p.approaching_agents \cup DOMAIN p.started_waiting_at
    ELSE p.requests

\* mutant: a request that is already pending is refused
submit_request_RejectsDuplicate(ints, req) ==
    LET id == req.turn.parent
        i == ints[id]
    IN IF req.agent \in DOMAIN i.accepted
       THEN IF i.accepted[req.agent] # req.turn
            THEN [intersections |-> ints, ret |-> "InvariantViolated"]
            ELSE [intersections |-> ints, ret |-> "Ok"]
       ELSE IF req \in Pending(i)
            THEN [intersections |-> ints, ret |-> "InvariantViolated"]
            ELSE IF i.kind = "StopSign"
                 THEN [intersections |->
                         [ints EXCEPT ![id].approaching_agents = @ \cup {req}],
                       ret |-> "Ok"]
                 ELSE [intersections |-> [ints EXCEPT ![id].requests = @ \cup {req}],
                       ret |-> "Ok"]

\* mutant: a request replaces the other pending requests of its agent
submit_request_LatestPerAgent(ints, req) ==
    LET id == req.turn.parent
        i == ints[id]
        others(S) == {q \in S : q.agent # req.agent}
    IN IF req.agent \in DOMAIN i.accepted
       THEN IF i.accepted[req.agent] # req.turn
            THEN [intersections |-> ints, ret |-> "InvariantViolated"]
            ELSE [intersections |-> ints, ret |-> "Ok"]
       ELSE IF i.kind = "StopSign"
            THEN [intersections |->
                    [ints EXCEPT ![id].approaching_agents =
                        IF req \notin DOMAIN i.started_waiting_at
                        THEN others(@) \cup {req} ELSE @],
                  ret |-> "Ok"]
            ELSE [intersections |->
                    [ints EXCEPT ![id].requests = others(@) \cup {req}],
                  ret |-> "Ok"]

\* mutant: an accepted agent may not submit again, not even the same turn
submit_request_RejectsAccepted(ints, req) ==
    LET id == req.turn.parent
        i == ints[id]
    IN IF req.agent \in DOMAIN i.accepted
       THEN [intersections |-> ints, ret |-> "InvariantViolated"]
       ELSE IF i.kind = "StopSign"
            THEN [intersections |->
                    [ints EXCEPT ![id].approaching_agents =
                        IF req \notin DOMAIN i.started_waiting_at
                        THEN @ \cup {req} ELSE @],
                  ret |-> "Ok"]
            ELSE [intersections |-> [ints EXCEPT ![id].requests = @ \cup {req}],
                  ret |-> "Ok"]

\* mutant: an empty intersection grants at once
submit_request_GrantsIfFree(ints, req) ==
    LET id == req.turn.parent
        i == ints[id]
    IN IF req.agent \in DOMAIN i.accepted
       THEN IF i.accepted[req.agent] # req.turn
            THEN [intersections |-> ints, ret |-> "InvariantViolated"]
            ELSE [intersections |-> ints, ret |-> "Ok"]
       ELSE IF DOMAIN i.accepted = {}
            THEN [intersections |->
                    [ints EXCEPT ![id].accepted = MapInsert(@, req.agent, req.turn)],
                  ret |-> "Ok"]
            ELSE IF i.kind = "StopSign"
                 THEN [intersections |->
                         [ints EXCEPT ![id].approaching_agents =
                             IF req \notin DOMAIN i.started_waiting_at
                             THEN @ \cup {req} ELSE @],
                       ret |-> "Ok"]
                 ELSE [intersections |-> [ints EXCEPT ![id].requests = @ \cup {req}],
                       ret |-> "Ok"]

\* mutant: a request that is waiting is queued in approaching again
submit_request_RequeuesWaiting(ints, req) ==
    LET id == req.turn.parent
        i == ints[id]
    IN IF req.agent \in DOMAIN i.accepted
       THEN IF i.accepted[req.agent] # req.turn
            THEN [intersections |-> ints, ret |-> "InvariantViolated"]
            ELSE [intersections |-> ints, ret |-> "Ok"]
       ELSE IF i.kind = "StopSign"
            THEN [intersections |->
                    [ints EXCEPT ![id].approaching_agents = @ \cup {req}],
                  ret |-> "Ok"]
            ELSE [intersections |-> [ints EXCEPT ![id].requests = @ \cup {req}],
                  ret |-> "Ok"]

\* mutant: submitting a waiting request again moves it back to approaching
submit_request_RestartsWaiting(ints, req) ==
    LET id == req.turn.parent
        i == ints[id]
    IN IF req.agent \in DOMAIN i.accepted
       THEN IF i.accepted[req.agent] # req.turn
            THEN [intersections |-> ints, ret |-> "InvariantViolated"]
            ELSE [intersections |-> ints, ret |-> "Ok"]
       ELSE IF i.kind = "StopSign"
            THEN [intersections |->
                    [ints EXCEPT ![id].approaching_agents = @ \cup {req},
                                 ![id].started_waiting_at =
                                     [r \in (DOMAIN @) \ {req} |-> @[r]]],
                  ret |-> "Ok"]
            ELSE [intersections |-> [ints EXCEPT ![id].requests = @ \cup {req}],
                  ret |-> "Ok"]

submit_request(ints, req) ==
    LET id == req.turn.parent
        i == ints[id]
    IN IF req.agent \in DOMAIN i.accepted
       THEN IF i.accepted[req.agent] # req.turn
            THEN [intersections |-> ints, ret |-> "InvariantViolated"]
            ELSE [intersections |-> ints, ret |-> "Ok"]
       ELSE IF i.kind = "StopSign"
            THEN [intersections |->
                    [ints EXCEPT ![id].approaching_agents =
                        IF req \notin DOMAIN i.started_waiting_at
                        THEN @ \cup {req} ELSE @],
                  ret |-> "Ok"]
            ELSE [intersections |-> [ints EXCEPT ![id].requests = @ \cup {req}],
                  ret |-> "Ok"]

\* mutant: on_enter compares the turn as request_granted does
on_enter_ChecksTurn(ints, req) ==
    IF request_granted(ints, req) THEN "Ok" ELSE "InvariantViolated"

on_enter(ints, req) ==
    IF req.agent \in DOMAIN ints[req.turn.parent].accepted
    THEN "Ok" ELSE "InvariantViolated"

\* mutant: the entries are removed by turn instead of by agent
on_exit_RemovesByTurn(ints, req) ==
    LET id == req.turn.parent
        acc == ints[id].accepted
    IN IF req.agent \notin DOMAIN acc
       THEN [intersections |-> ints, panic |-> TRUE]
       ELSE [intersections |->
                [ints EXCEPT ![id].accepted =
                    [a \in {b \in DOMAIN acc : b # req.agent /\ acc[b] # acc[req.agent]}
                        |-> acc[a]]],
             panic |-> FALSE]

on_exit(ints, req) ==
    LET id == req.turn.parent
    IN IF req.agent \notin DOMAIN ints[id].accepted
       THEN [intersections |-> ints, panic |-> TRUE]
       ELSE [intersections |-> [ints EXCEPT ![id].accepted = MapRemove(@, req.agent)],
             panic |-> FALSE]

(***************************************************************************)
(* StopSign                                                                *)
(***************************************************************************)
\* mutant: only accepted turns of higher priority count
conflicts_with_accepted_HigherPriority(p, turn) ==
    \E t \in MapValues(p.accepted) :
        conflicts_with(turn, t) /\ get_priority(t) > get_priority(turn)

conflicts_with_accepted(p, turn) ==
    \E t \in MapValues(p.accepted) : conflicts_with(turn, t)

\* mutant: a waiting request of the same priority blocks as well
conflicts_with_waiting_with_higher_priority_OrEqual(p, turn) ==
    \E req \in DOMAIN p.started_waiting_at :
        /\ conflicts_with(turn, req.turn)
        /\ get_priority(req.turn) >= get_priority(turn)

conflicts_with_waiting_with_higher_priority(p, turn) ==
    \E req \in DOMAIN p.started_waiting_at :
        /\ conflicts_with(turn, req.turn)
        /\ get_priority(req.turn) > get_priority(turn)

should_promote(req, info) ==
    /\ req.agent \in info.leaders
    /\ IF get_priority(req.turn) = Stop
       THEN info.speeds[req.agent] <= EPSILON_SPEED
       ELSE TRUE

\* mutant: a promoted request also stays in approaching
StopSignPromote_KeepsApproaching(p, now, info) ==
    LET newly_stopped == {req \in p.approaching_agents : should_promote(req, info)}
    IN [p EXCEPT
          !.started_waiting_at =
              [r \in (DOMAIN @) \cup newly_stopped |->
                  IF r \in newly_stopped THEN now ELSE @[r]]]

\* mutant: every step stamps the waiting requests of stopped leaders again
StopSignPromote_Restamps(p, now, info) ==
    LET newly_stopped == {req \in p.approaching_agents \cup DOMAIN p.started_waiting_at :
                             should_promote(req, info)}
    IN [p EXCEPT
          !.started_waiting_at =
              [r \in (DOMAIN @) \cup newly_stopped |->
                  IF r \in newly_stopped THEN now ELSE @[r]],
          !.approaching_agents = @ \ newly_stopped]

\* first two loops of StopSign::step: approaching -> waiting
StopSignPromote(p, now, info) ==
    LET newly_stopped == {req \in p.approaching_agents : should_promote(req, info)}
    IN [p EXCEPT
          !.started_waiting_at =
              [r \in (DOMAIN @) \cup newly_stopped |->
                  IF r \in newly_stopped THEN now ELSE @[r]],
          !.approaching_agents = @ \ newly_stopped]

\* mutant: the dwell is one tick short
StillDwelling_OffByOne(p, req, now) ==
    /\ get_priority(req.turn) = Stop
    /\ now - p.started_waiting_at[req] + 1 < WAIT_AT_STOP_SIGN

\* the dwell test of the admission loop
StillDwelling(p, req, now) ==
    /\ get_priority(req.turn) = Stop
    /\ now - p.started_waiting_at[req] < WAIT_AT_STOP_SIGN

\* third loop of StopSign::step: waiting -> accepted, in key order, each
\* candidate tested against the accepted map as grown so far
RECURSIVE StopSignAdmit(_, _, _, _)
StopSignAdmit(p, reqs, newly_accepted, now) ==
    IF reqs = <<>>
    THEN [policy |-> p, newly_accepted |-> newly_accepted, panic |-> FALSE]
    ELSE LET req == Head(reqs)
         IN IF req.turn.parent # p.id \/ req.agent \in DOMAIN p.accepted
            THEN [policy |-> p, newly_accepted |-> newly_accepted, panic |-> TRUE]
            ELSE IF \/ conflicts_with_accepted(p, req.turn)
                    \/ conflicts_with_waiting_with_higher_priority(p, req.turn)
                    \/ StillDwelling(p, req, now)
                 THEN StopSignAdmit(p, Tail(reqs), newly_accepted, now)
                 ELSE StopSignAdmit(
                        [p EXCEPT !.accepted = MapInsert(@, req.agent, req.turn)],
                        Tail(reqs), Append(newly_accepted, req), now)

\* a failed assert unwinds out of the admission loop: the last loop does not
\* run, so nothing is pushed to events and the requests admitted so far are
\* still in started_waiting_at
StopSignStep(p, now, info) ==
    LET promoted == StopSignPromote(p, now, info)
        admitted == StopSignAdmit(promoted,
                        SortedRequests(DOMAIN promoted.started_waiting_at), <<>>, now)
        gone == {admitted.newly_accepted[n] : n \in DOMAIN admitted.newly_accepted}
    IN IF admitted.panic
       THEN [policy |-> admitted.policy, events |-> <<>>, panic |-> TRUE]
       ELSE [policy |-> [admitted.policy EXCEPT !.started_waiting_at =
                            [r \in (DOMAIN @) \ gone |-> @[r]]],
             events |-> admitted.newly_accepted,
             panic |-> FALSE]

(***************************************************************************)
(* TrafficSignal                                                           *)
(***************************************************************************)
\* mutant: the guard is gone
OverRun_Never(p, cycle) == FALSE

\* the over-run guard: some accepted turn is not in the current cycle
OverRun(p, cycle) ==
    \E agent \in DOMAIN p.accepted : ~CycleContains(cycle, p.accepted[agent])

RECURSIVE TrafficSignalAdmit(_, _, _, _, _, _)
TrafficSignalAdmit(p, reqs, keep_requests, evs, cycle, info) ==
    IF reqs = <<>>
    THEN [policy |-> [p EXCEPT !.requests = keep_requests], events |-> evs,
          panic |-> FALSE]
    ELSE LET req == Head(reqs)
         IN IF req.turn.parent # p.id \/ req.agent \in DOMAIN p.accepted
            THEN [policy |-> p, events |-> evs, panic |-> TRUE]
            ELSE IF ~CycleContains(cycle, req.turn) \/ req.agent \notin info.leaders
                 THEN TrafficSignalAdmit(p, Tail(reqs), keep_requests \cup {req},
                                         evs, cycle, info)
                 ELSE TrafficSignalAdmit(
                        [p EXCEPT !.accepted = MapInsert(@, req.agent, req.turn)],
                        Tail(reqs), keep_requests, Append(evs, req), cycle, info)

TrafficSignalStep(p, cycle, info) ==
    IF OverRun(p, cycle)
    THEN [policy |-> p, events |-> <<>>, panic |-> FALSE]
    ELSE TrafficSignalAdmit(p, SortedRequests(p.requests), {}, <<>>, cycle, info)

(***************************************************************************)
(* IntersectionSimState::step: every policy once, in Vec order             *)
(***************************************************************************)
PolicyStep(p, now, cycles, info) ==
    IF p.kind = "StopSign"
    THEN StopSignStep(p, now, info)
    ELSE TrafficSignalStep(p, cycles[p.id], info)

RECURSIVE StepFrom(_, _, _, _, _, _)
StepFrom(ints, i, evs, now, cycles, info) ==
    IF i \notin DOMAIN ints
    THEN [intersections |-> ints, events |-> evs, panic |-> FALSE]
    ELSE LET r == PolicyStep(ints[i], now, cycles, info)
         IN IF r.panic
            THEN [intersections |-> ints, events |-> evs, panic |-> TRUE]
            ELSE StepFrom([ints EXCEPT ![i] = r.policy], i + 1,
                          evs \o r.events, now, cycles, info)

\* mutant: the policies are stepped from the last intersection to the first
RECURSIVE StepDownFrom(_, _, _, _, _, _)
StepDownFrom(ints, i, evs, now, cycles, info) ==
    IF i \notin DOMAIN ints
    THEN [intersections |-> ints, events |-> evs, panic |-> FALSE]
    ELSE LET r == PolicyStep(ints[i], now, cycles, info)
         IN IF r.panic
            THEN [intersections |-> ints, events |-> evs, panic |-> TRUE]
            ELSE StepDownFrom([ints EXCEPT ![i] = r.policy], i - 1,
                              evs \o r.events, now, cycles, info)

step_Descending(ints, now, cycles, info) ==
    StepDownFrom(ints, Cardinality(DOMAIN ints) - 1, <<>>, now, cycles, info)

step(ints, now, cycles, info) == StepFrom(ints, 0, <<>>, now, cycles, info)

\* the cycles the signals may be in at one step
SignalIDs == {i \in IntersectionIDs : map.has_traffic_signal[i]}

CycleChoices == [SignalIDs -> control_map.cycles]

(***************************************************************************)
(* Maps                                                                    *)
(***************************************************************************)
TurnsOf(i) == {TurnID(i, k) : k \in Lanes}

\* symmetric, irreflexive conflict relations between the turns of one
\* intersection
ConflictRelations(turns) ==
    {rel \in SUBSET (turns \X turns) :
        \A pr \in rel : pr[1] # pr[2] /\ <<pr[2], pr[1]>> \in rel}

\* sets of turns no two of which conflict
ConflictFree(rel, turns) ==
    {c \in SUBSET turns : \A t \in c, u \in c : <<t, u>> \notin rel}

(***************************************************************************)
(* Initial states                                                          *)
(***************************************************************************)
InitState(m, cm) ==
    /\ map = m
    /\ control_map = cm
    /\ intersections = IntersectionSimStateNew(m)
    /\ time = 0
    /\ events = <<>>
    /\ last = [op |-> "new", req |-> NoRequest, ret |-> "Ok"]
    /\ panicked = FALSE

\* the stop-sign priorities of the turns of intersection i; the lanes are
\* numbered by non-decreasing priority
PriorityAssignments(i) ==
    {prio \in [TurnsOf(i) -> TurnPriority] :
        \A t \in TurnsOf(i), u \in TurnsOf(i) : t.lane <= u.lane => prio[t] <= prio[u]}

\* one stop sign
InitStop ==
    \E rel \in ConflictRelations(TurnsOf(0)), prio \in PriorityAssignments(0) :
        InitState([has_traffic_signal |-> [i \in {0} |-> FALSE], conflicts |-> rel],
                  [stop_signs |-> [i \in {0} |-> prio], cycles |-> {}])

\* one traffic signal whose cycles are conflict-free
InitSignal ==
    \E rel \in ConflictRelations(TurnsOf(0)) :
        InitState([has_traffic_signal |-> [i \in {0} |-> TRUE], conflicts |-> rel],
                  [stop_signs |-> EmptyMap, cycles |-> ConflictFree(rel, TurnsOf(0))])

\* two intersections, a stop sign and a traffic signal in either order; no
\* turns conflict, every stop-sign turn is a Yield turn and the signal has
\* one cycle with all its turns
InitTwo ==
    \E s \in {0, 1} :
        InitState([has_traffic_signal |-> [i \in {0, 1} |-> i = s], conflicts |-> {}],
                  [stop_signs |-> [i \in {1 - s} |-> [t \in TurnsOf(i) |-> Yield]],
                   cycles |-> {TurnsOf(s)}])

Init == InitStop \/ InitSignal

(***************************************************************************)
(* Actions                                                                 *)
(***************************************************************************)
SubmitRequest ==
    /\ ~panicked
    /\ \E req \in AllRequests :
         LET r == submit_request(intersections, req)
         IN /\ intersections' = r.intersections
            /\ last' = [op |-> "submit_request", req |-> req, ret |-> r.ret]
    /\ events' = <<>>
    /\ UNCHANGED <<map, control_map, time, panicked>>

Step ==
    /\ ~panicked
    /\ \E now \in Ticks, info \in AgentInfos, cycles \in CycleChoices :
         /\ now >= time
         /\ LET r == step(intersections, now, cycles, info)
            IN /\ intersections' = IF r.panic THEN intersections ELSE r.intersections
               /\ events' = IF r.panic THEN <<>> ELSE r.events
               /\ panicked' = r.panic
               /\ last' = [op |-> "step", req |-> NoRequest,
                           ret |-> IF r.panic THEN "panic" ELSE "Ok"]
         /\ time' = now + 1
    /\ UNCHANGED <<map, control_map>>

RequestGranted ==
    /\ ~panicked
    /\ \E req \in AllRequests :
         last' = [op |-> "request_granted", req |-> req,
                  ret |-> IF request_granted(intersections, req) THEN "true" ELSE "false"]
    /\ events' = <<>>
    /\ UNCHANGED <<map, control_map, intersections, time, panicked>>

OnEnter ==
    /\ ~panicked
    /\ \E req \in AllRequests :
         last' = [op |-> "on_enter", req |-> req, ret |-> on_enter(intersections, req)]
    /\ events' = <<>>
    /\ UNCHANGED <<map, control_map, intersections, time, panicked>>

OnExit ==
    /\ ~panicked
    /\ \E req \in AllRequests :
         LET r == on_exit(intersections, req)
         IN /\ intersections' = r.intersections
            /\ panicked' = r.panic
            /\ last' = [op |-> "on_exit", req |-> req,
                        ret |-> IF r.panic THEN "panic" ELSE "Ok"]
    /\ events' = <<>>
    /\ UNCHANGED <<map, control_map, time>>

Next == SubmitRequest \/ Step \/ RequestGranted \/ OnEnter \/ OnExit

Spec == Init /\ [][Next]_vars

SpecStop == InitStop /\ [][Next]_vars

SpecSignal == InitSignal /\ [][Next]_vars

\* the requests pending or accepted, over all intersections
Outstanding(ints) ==
    LET n(i) == Cardinality(Pending(ints[i])) + Cardinality(DOMAIN ints[i].accepted)
    IN IF 1 \in DOMAIN ints THEN n(0) + n(1) ELSE n(0)

\* the two-intersection map: at most MaxOutstanding requests are outstanding
\* and the steps run at consecutive ticks; the queries, which write nothing,
\* are left out
SubmitRequestBounded == SubmitRequest /\ Outstanding(intersections') <= MaxOutstanding

StepNextTick == Step /\ time' = time + 1

NextTwo == SubmitRequestBounded \/ StepNextTick \/ OnExit

SpecTwo == InitTwo /\ [][NextTwo]_vars

(***************************************************************************)
(* Properties                                                              *)
(***************************************************************************)
StopSignIDs == {i \in IntersectionIDs : intersections[i].kind = "StopSign"}

TrafficSignalIDs == {i \in IntersectionIDs : intersections[i].kind = "TrafficSignal"}

Accepted(i) == intersections[i].accepted

\* no two entries of the accepted map of p are for turns that conflict
NoConflictingAccepted(p) ==
    \A a \in DOMAIN p.accepted, b \in DOMAIN p.accepted :
        a # b => ~conflicts_with(p.accepted[a], p.accepted[b])

\* the requests an events vector holds
EventSet(evs) == {evs[n] : n \in DOMAIN evs}

\* C1: at a stop sign, after any sequence of calls, no two accepted entries
\* are for turns that conflict, requests admitted in one step included.
C1_StopSignNoConflict ==
    \A i \in StopSignIDs : NoConflictingAccepted(intersections[i])

\* C1 witness: a step admitted r and left a later-sorted request q of the same
\* (non-Stop) priority on a conflicting turn waiting: q was refused only
\* because of r, admitted earlier in that same step.
C1_Witness ==
    /\ last.op = "step"
    /\ Len(events) = 1
    /\ \E i \in StopSignIDs :
         /\ DOMAIN Accepted(i) = {events[1].agent}
         /\ \E q \in DOMAIN intersections[i].started_waiting_at :
              /\ conflicts_with(q.turn, events[1].turn)
              /\ get_priority(q.turn) = get_priority(events[1].turn)
              /\ get_priority(q.turn) # Stop
              /\ RequestLess(events[1], q)

\* C2: at a traffic signal whose cycles are conflict-free, no two accepted
\* entries are for turns that conflict; a step that admits a request leaves
\* every accepted turn inside the cycle it ran with.
C2_SignalNoConflict ==
    \A i \in TrafficSignalIDs :
        /\ NoConflictingAccepted(intersections[i])
        /\ \A cycle \in control_map.cycles, info \in AgentInfos :
             LET r == TrafficSignalStep(intersections[i], cycle, info)
             IN r.events # <<>> =>
                    \A t \in MapValues(r.policy.accepted) : t \in cycle

\* C2 witness: on a map with conflicting turns a signal step admitted a
\* request while another agent was already accepted.
C2_Witness ==
    /\ last.op = "step"
    /\ map.conflicts # {}
    /\ \E i \in TrafficSignalIDs :
         /\ Len(events) = 1
         /\ Cardinality(DOMAIN Accepted(i)) = 2

\* C3 as stated: a grant of r ends only by on_exit(r).
C3_GrantEndsOnlyByOwnExit ==
    [][\A r \in AllRequests :
          (request_granted(intersections, r) /\ ~request_granted(intersections', r))
              => (last'.op = "on_exit" /\ last'.req = r)]_vars

\* C3 amended: a grant of r persists across every call until on_exit is
\* called for a request of r's agent at r's intersection; the turn of that
\* request is not compared.
C3_GrantEndsOnlyByAgentExit ==
    [][\A r \in AllRequests :
          (request_granted(intersections, r) /\ ~request_granted(intersections', r))
              => /\ last'.op = "on_exit"
                 /\ last'.req.agent = r.agent
                 /\ last'.req.turn.parent = r.turn.parent]_vars

\* C3 witness: a grant made by an earlier call is still there after a step.
C3_Witness ==
    /\ last.op = "step"
    /\ ~panicked
    /\ \E r \in AllRequests :
         request_granted(intersections, r) /\ r \notin EventSet(events)

\* C4: a Stop request admitted by a step was waiting before that step and
\* its waiting timestamp, which no call rewrites while it waits, is at least
\* WAIT_AT_STOP_SIGN ticks before the step's tick.
C4_StopDwell ==
    [][\A i \in StopSignIDs :
          LET waiting == intersections[i].started_waiting_at
          IN /\ \A r \in (DOMAIN waiting) \cap DOMAIN intersections'[i].started_waiting_at :
                  intersections'[i].started_waiting_at[r] = waiting[r]
             /\ \A r \in EventSet(events') :
                  (r.turn.parent = i /\ get_priority(r.turn) = Stop)
                      => /\ r \in DOMAIN waiting
                         /\ (time' - 1) - waiting[r] >= WAIT_AT_STOP_SIGN]_vars

\* C4 witness: a step admitted a Stop request.
C4_Witness ==
    /\ last.op = "step"
    /\ \E r \in EventSet(events) :
         /\ intersections[r.turn.parent].kind = "StopSign"
         /\ get_priority(r.turn) = Stop
         /\ request_granted(intersections, r)

\* C5: submit_request leaves every accepted map as it was and emits no
\* event; entries enter accepted only in step, leave only in on_exit, and
\* are never replaced.
C5_SubmitNeverGrants ==
    [][/\ last'.op = "submit_request" =>
              /\ \A i \in IntersectionIDs : intersections'[i].accepted = Accepted(i)
              /\ events' = <<>>
       /\ \A i \in IntersectionIDs, a \in AgentIDs :
              LET before == a \in DOMAIN Accepted(i)
                  after == a \in DOMAIN intersections'[i].accepted
              IN /\ (~before /\ after) => last'.op = "step"
                 /\ (before /\ ~after) => last'.op = "on_exit"
                 /\ (before /\ after) => intersections'[i].accepted[a] = Accepted(i)[a]]_vars

\* C5 witness: a submit_request that returned Ok left its request pending
\* and not granted.
C5_Witness ==
    /\ last.op = "submit_request"
    /\ last.ret = "Ok"
    /\ ~request_granted(intersections, last.req)
    /\ LET p == intersections[last.req.turn.parent]
       IN IF p.kind = "StopSign"
          THEN last.req \in p.approaching_agents
          ELSE last.req \in p.requests

\* C6: submit_request(r) called twice in a row leaves the state and returns
\* the value of the first call.
C6_SubmitIdempotent ==
    [][(/\ last.op = "submit_request"
        /\ last'.op = "submit_request"
        /\ last'.req = last.req)
           => (intersections' = intersections /\ last'.ret = last.ret)]_vars

\* C6 witness: a request that is waiting at a stop sign was submitted again.
C6_Witness ==
    /\ last.op = "submit_request"
    /\ last.ret = "Ok"
    /\ LET p == intersections[last.req.turn.parent]
       IN p.kind = "StopSign" /\ last.req \in DOMAIN p.started_waiting_at

\* the snapshot in which every agent is a leader and stopped
AllReady == [leaders |-> AgentIDs, speeds |-> [a \in AgentIDs |-> EPSILON_SPEED]]

\* C7: submitting two distinct requests of one intersection in either order
\* gives the same return values and the same state, and so the same state
\* and events after the step that follows.
C7_SubmitOrderIndependent ==
    \A r1 \in AllRequests, r2 \in AllRequests :
        (RequestLess(r1, r2) /\ r1.turn.parent = r2.turn.parent) =>
            LET a1 == submit_request(intersections, r1)
                a2 == submit_request(a1.intersections, r2)
                b2 == submit_request(intersections, r2)
                b1 == submit_request(b2.intersections, r1)
            IN /\ a2.intersections = b1.intersections
               /\ a1.ret = b1.ret
               /\ a2.ret = b2.ret
               /\ \A cycles \in CycleChoices :
                    step(a2.intersections, MaxTick, cycles, AllReady)
                        = step(b1.intersections, MaxTick, cycles, AllReady)

\* C7 witness: two distinct requests are pending at one intersection, the
\* second just submitted.
C7_Witness ==
    /\ last.op = "submit_request"
    /\ \E q \in AllRequests :
         /\ q # last.req
         /\ {q, last.req} \subseteq Pending(intersections[last.req.turn.parent])

\* C8: submit_request returns InvariantViolated exactly when its agent is
\* accepted at the intersection for another turn; whenever the agent is
\* accepted the state is left as it was; every other call returns Ok.
C8_SubmitResult ==
    [][last'.op = "submit_request" =>
          LET req == last'.req
              acc == Accepted(req.turn.parent)
          IN /\ last'.ret \in {"Ok", "InvariantViolated"}
             /\ last'.ret = "InvariantViolated"
                    <=> (req.agent \in DOMAIN acc /\ acc[req.agent] # req.turn)
             /\ req.agent \in DOMAIN acc => intersections' = intersections]_vars

\* C8 witness: a submit_request was refused with InvariantViolated.
C8_Witness ==
    /\ last.op = "submit_request"
    /\ last.ret = "InvariantViolated"

\* C9 as stated (I3): at a stop sign approaching and waiting are disjoint and
\* hold no request of an agent that is a key of accepted.
C9_I3 ==
    \A i \in StopSignIDs :
        LET p == intersections[i]
        IN /\ p.approaching_agents \cap DOMAIN p.started_waiting_at = {}
           /\ \A r \in Pending(p) : r.agent \notin DOMAIN p.accepted

\* C10 as stated: a signal step that finds an accepted turn outside the
\* cycle admits nothing, emits nothing and leaves accepted and requests as
\* they were; once agents have left by on_exit and no accepted turn is
\* outside the cycle, the next step admits every pending request whose turn
\* is in the cycle and whose agent is a leader.
C10_OverRunGuardThenResume ==
    \A i \in TrafficSignalIDs, cycle \in control_map.cycles, info \in AgentInfos :
        LET p == intersections[i]
            r == TrafficSignalStep(p, cycle, info)
        IN IF \E a \in DOMAIN p.accepted : p.accepted[a] \notin cycle
           THEN ~r.panic /\ r.events = <<>> /\ r.policy = p
           ELSE (last.op = "on_exit" /\ last.ret = "Ok" /\ last.req.turn.parent = i) =>
                    \A req \in p.requests :
                        (req.turn \in cycle /\ req.agent \in info.leaders) =>
                            /\ ~r.panic
                            /\ req.agent \in DOMAIN r.policy.accepted
                            /\ r.policy.accepted[req.agent] = req.turn

\* the ticks a step may run at from the current state
TicksFromNow == {now \in Ticks \cup {time} : now >= time}

\* C11 as stated: a pending request whose agent is not a leader is not
\* promoted (stop sign) or admitted (signal) by a step; a step in which its
\* agent is a leader (stopped, for a Stop turn; with the turn in the cycle and
\* the guard silent, for a signal) completes and promotes, respectively
\* admits, the request.
C11_LeaderGate ==
    \A i \in IntersectionIDs, info \in AgentInfos :
        LET p == intersections[i]
        IN IF p.kind = "StopSign"
           THEN \A now \in TicksFromNow :
                  LET r == StopSignStep(p, now, info)
                  IN \A req \in p.approaching_agents :
                       /\ req.agent \notin info.leaders =>
                              /\ req \notin EventSet(r.events)
                              /\ ~r.panic => req \in r.policy.approaching_agents
                       /\ should_promote(req, info) =>
                              /\ ~r.panic
                              /\ req \notin r.policy.approaching_agents
                              /\ \/ req \in DOMAIN r.policy.started_waiting_at
                                 \/ req \in EventSet(r.events)
           ELSE \A cycle \in control_map.cycles :
                  LET r == TrafficSignalStep(p, cycle, info)
                  IN \A req \in p.requests :
                       /\ req.agent \notin info.leaders =>
                              /\ req \notin EventSet(r.events)
                              /\ ~r.panic => req \in r.policy.requests
                       /\ (/\ req.agent \in info.leaders
                           /\ CycleContains(cycle, req.turn)
                           /\ ~OverRun(p, cycle)) =>
                              /\ ~r.panic
                              /\ req \in EventSet(r.events)
                              /\ req.agent \in DOMAIN r.policy.accepted
                              /\ r.policy.accepted[req.agent] = req.turn

\* every request pending at some intersection
AllPending == UNION {Pending(intersections[i]) : i \in IntersectionIDs}

\* C12: only step emits events; a step emits each event once, and emits an
\* event for r exactly when it moved r from pending into accepted; a granted
\* request is no longer pending, and submitting a request that is pending or
\* granted changes nothing: so between its submission and its on_exit a
\* request is admitted, and announced, once, however often it is re-submitted.
C12_OneEventPerGrant ==
    [][/\ last'.op # "step" => events' = <<>>
       /\ last'.op = "step" =>
              /\ \A m \in DOMAIN events', n \in DOMAIN events' :
                     m # n => events'[m] # events'[n]
              /\ EventSet(events') =
                     {r \in AllRequests : /\ ~request_granted(intersections, r)
                                          /\ request_granted(intersections', r)}
              /\ EventSet(events') \subseteq AllPending
       /\ \A r \in AllRequests :
              request_granted(intersections', r) =>
                  r \notin Pending(intersections'[r.turn.parent])
       /\ (/\ last'.op = "submit_request"
           /\ \/ request_granted(intersections, last'.req)
              \/ last'.req \in AllPending) =>
              intersections' = intersections]_vars

\* C12 witness: a step admitted exactly one request, on a Stop turn (it was
\* pending over at least two steps), while the grant of another agent, made
\* earlier, stayed without a new event.
C12_Witness ==
    /\ last.op = "step"
    /\ Len(events) = 1
    /\ request_granted(intersections, events[1])
    /\ intersections[events[1].turn.parent].kind = "StopSign"
    /\ get_priority(events[1].turn) = Stop
    /\ \E q \in AllRequests :
         /\ q.agent # events[1].agent
         /\ request_granted(intersections, q)

\* pairs of requests of scenario 2: agents A < B on conflicting Stop turns of
\* stop sign i
ConflictingStopPairs(i) ==
    {pr \in AllRequests \X AllRequests :
        /\ pr[1].turn.parent = i /\ pr[2].turn.parent = i
        /\ pr[1].agent < pr[2].agent
        /\ get_priority(pr[1].turn) = Stop
        /\ get_priority(pr[2].turn) = Stop
        /\ conflicts_with(pr[1].turn, pr[2].turn)}

\* C13: two conflicting Stop requests rA, rB of agents A < B promoted in the
\* same step, nothing else pending or accepted: a step before the dwell is
\* over admits neither, a step from then on admits exactly rA and keeps rB
\* waiting; while A is accepted on a turn that conflicts with rB's, no step
\* admits rB; with rB alone left after on_exit of A, the next step admits rB.
C13_SmallerFirstThenOther ==
    \A i \in StopSignIDs : \A pr \in ConflictingStopPairs(i),
                              now \in TicksFromNow, info \in AgentInfos :
        LET p == intersections[i]
            rA == pr[1]
            rB == pr[2]
            waiting == p.started_waiting_at
            r == StopSignStep(p, now, info)
        IN /\ (/\ DOMAIN waiting = {rA, rB}
               /\ waiting[rA] = waiting[rB]
               /\ p.approaching_agents = {}
               /\ DOMAIN p.accepted = {}) =>
                  /\ ~r.panic
                  /\ IF now - waiting[rA] < WAIT_AT_STOP_SIGN
                     THEN r.events = <<>> /\ r.policy = p
                     ELSE /\ r.events = <<rA>>
                          /\ r.policy.accepted = MapInsert(EmptyMap, rA.agent, rA.turn)
                          /\ r.policy.started_waiting_at = MapRemove(waiting, rA)
           /\ (/\ rB \in DOMAIN waiting
               /\ rA.agent \in DOMAIN p.accepted
               /\ p.accepted[rA.agent] = rA.turn) =>
                  /\ rB \notin EventSet(r.events)
                  /\ rB.turn \notin MapValues(r.policy.accepted)
                  /\ ~r.panic => rB \in DOMAIN r.policy.started_waiting_at
           /\ (/\ last.op = "on_exit" /\ last.ret = "Ok" /\ last.req.agent = rA.agent
               /\ DOMAIN waiting = {rB}
               /\ p.approaching_agents = {}
               /\ DOMAIN p.accepted = {}
               /\ now - waiting[rB] >= WAIT_AT_STOP_SIGN) =>
                  /\ ~r.panic
                  /\ r.events = <<rB>>
                  /\ r.policy.accepted = MapInsert(EmptyMap, rB.agent, rB.turn)
                  /\ r.policy.started_waiting_at = EmptyMap

\* C13 witness: every turn is a Stop turn; rB has been waiting since tick 0
\* and is alone at the stop sign after the step at the end of the dwell and
\* the on_exit of A, whose turn conflicts with rB's: A was promoted with B,
\* admitted before B, and has left.
C13_Witness ==
    /\ last.op = "on_exit"
    /\ last.ret = "Ok"
    /\ time = WAIT_AT_STOP_SIGN + 1
    /\ \E i \in StopSignIDs :
         /\ \A t \in TurnsOf(i) : get_priority(t) = Stop
         /\ \E pr \in ConflictingStopPairs(i) :
              /\ last.req = pr[1]
              /\ DOMAIN intersections[i].started_waiting_at = {pr[2]}
              /\ intersections[i].started_waiting_at[pr[2]] = 0
              /\ intersections[i].approaching_agents = {}
              /\ DOMAIN intersections[i].accepted = {}

\* the accepted turns req is tested against in a stop-sign step with result
\* r: those of the entry state and those admitted before req in that step
AcceptedWhenExamined(p, r, req) ==
    LET newly == {Request(a, r.policy.accepted[a]) :
                     a \in (DOMAIN r.policy.accepted) \ DOMAIN p.accepted}
    IN MapValues(p.accepted) \cup
           {e.turn : e \in {x \in newly : RequestLess(x, req)}}

\* C14 as stated: in a stop-sign step, an approaching request of a leader on
\* a Yield or Priority turn that conflicts with no accepted turn and with no
\* waiting request of strictly higher priority is admitted in that step; a
\* request that conflicts with a waiting request of strictly higher priority
\* is not admitted in that step, whatever its dwell.
C14_PriorityOverStop ==
    \A i \in StopSignIDs, now \in TicksFromNow, info \in AgentInfos :
        LET p == intersections[i]
            promoted == StopSignPromote(p, now, info)
            r == StopSignStep(p, now, info)
        IN /\ \A req \in p.approaching_agents :
                (/\ req.agent \in info.leaders
                 /\ get_priority(req.turn) # Stop
                 /\ \A t \in AcceptedWhenExamined(p, r, req) : ~conflicts_with(req.turn, t)
                 /\ ~conflicts_with_waiting_with_higher_priority(promoted, req.turn)) =>
                    /\ ~r.panic
                    /\ req \in EventSet(r.events)
                    /\ req.agent \in DOMAIN r.policy.accepted
                    /\ r.policy.accepted[req.agent] = req.turn
                    /\ req \notin Pending(r.policy)
           /\ \A req \in DOMAIN promoted.started_waiting_at :
                conflicts_with_waiting_with_higher_priority(promoted, req.turn) =>
                    /\ req \notin EventSet(r.events)
                    /\ ~r.panic => req \in DOMAIN r.policy.started_waiting_at

\* C15: request_granted(req) answers true exactly when accepted at req's
\* intersection maps req.agent to req.turn; on_enter(req) returns Ok exactly
\* when accepted there has an entry for req.agent, whatever its turn, and
\* InvariantViolated otherwise; neither call changes a policy or emits an
\* event.
C15_QueriesArePure ==
    [][/\ last'.op = "request_granted" =>
              LET acc == Accepted(last'.req.turn.parent)
              IN /\ last'.ret \in {"true", "false"}
                 /\ last'.ret = "true" <=>
                        \E a \in DOMAIN acc : a = last'.req.agent /\ acc[a] = last'.req.turn
                 /\ intersections' = intersections
                 /\ events' = <<>> /\ ~panicked'
       /\ last'.op = "on_enter" =>
              LET acc == Accepted(last'.req.turn.parent)
              IN /\ last'.ret \in {"Ok", "InvariantViolated"}
                 /\ last'.ret = "Ok" <=> \E a \in DOMAIN acc : a = last'.req.agent
                 /\ intersections' = intersections
                 /\ events' = <<>> /\ ~panicked']_vars

\* C15 witness: on_enter returned Ok for a request that request_granted
\* denies: its agent is accepted for another turn, and a request is pending.
C15_Witness ==
    /\ last.op = "on_enter"
    /\ last.ret = "Ok"
    /\ ~request_granted(intersections, last.req)
    /\ AllPending # {}

\* the snapshots in which the agent of req is a leader and stopped
ReadyInfos(req) ==
    {info \in AgentInfos :
        req.agent \in info.leaders /\ info.speeds[req.agent] <= EPSILON_SPEED}

\* C16: a stop sign i that holds a single request r, on a Stop turn, whose
\* agent is a leader and stopped.  While r is approaching, a step at tick now
\* moves it to waiting with timestamp now and admits nothing; while r is
\* waiting since t0, a step before t0 + WAIT_AT_STOP_SIGN changes nothing and
\* a step at or after it admits r; once r is accepted, on_exit(r) leaves
\* approaching, waiting and accepted empty.
C16_SingleStopRequest ==
    \A i \in StopSignIDs :
        LET p == intersections[i]
            waiting == p.started_waiting_at
        IN \A req \in {q \in AllRequests :
                          q.turn.parent = i /\ get_priority(q.turn) = Stop} :
             /\ (/\ p.approaching_agents = {req}
                 /\ DOMAIN waiting = {}
                 /\ DOMAIN p.accepted = {}) =>
                    \A now \in TicksFromNow, info \in ReadyInfos(req) :
                        LET r == StopSignStep(p, now, info)
                        IN /\ ~r.panic
                           /\ r.events = <<>>
                           /\ r.policy = [p EXCEPT
                                  !.approaching_agents = {},
                                  !.started_waiting_at = MapInsert(EmptyMap, req, now)]
             /\ (/\ p.approaching_agents = {}
                 /\ DOMAIN waiting = {req}
                 /\ DOMAIN p.accepted = {}) =>
                    \A now \in TicksFromNow, info \in ReadyInfos(req) :
                        LET r == StopSignStep(p, now, info)
                        IN /\ ~r.panic
                           /\ IF now < waiting[req] + WAIT_AT_STOP_SIGN
                              THEN r.events = <<>> /\ r.policy = p
                              ELSE /\ r.events = <<req>>
                                   /\ r.policy = [p EXCEPT
                                          !.started_waiting_at = EmptyMap,
                                          !.accepted = MapInsert(EmptyMap, req.agent, req.turn)]
             /\ (/\ Pending(p) = {}
                 /\ DOMAIN p.accepted = {req.agent}
                 /\ p.accepted[req.agent] = req.turn) =>
                    LET x == on_exit(intersections, req)
                    IN ~x.panic /\ x.intersections[i] = StopSignNew(i)

\* C16 witness: every turn is a Stop turn; on_exit(r) has emptied the stop
\* sign right after the step at the end of the dwell: r was promoted at tick
\* 0 and admitted at tick WAIT_AT_STOP_SIGN.
C16_Witness ==
    /\ last.op = "on_exit"
    /\ last.ret = "Ok"
    /\ time = WAIT_AT_STOP_SIGN + 1
    /\ \E i \in StopSignIDs :
         /\ last.req.turn.parent = i
         /\ \A t \in TurnsOf(i) : get_priority(t) = Stop
         /\ intersections[i] = StopSignNew(i)

\* C17 as stated: a signal step in which the over-run guard does not fire
\* completes; it admits exactly the pending requests whose turn is in the
\* cycle and whose agent is a leader, keeps exactly the others in requests,
\* and adds exactly the admitted ones to accepted.
C17_SignalAdmissionRule ==
    \A i \in TrafficSignalIDs, cycle \in control_map.cycles, info \in AgentInfos :
        LET p == intersections[i]
            r == TrafficSignalStep(p, cycle, info)
            eligible == {req \in p.requests :
                            CycleContains(cycle, req.turn) /\ req.agent \in info.leaders}
        IN ~OverRun(p, cycle) =>
              /\ ~r.panic
              /\ EventSet(r.events) = eligible
              /\ r.policy.requests = p.requests \ eligible
              /\ DOMAIN r.policy.accepted =
                     (DOMAIN p.accepted) \cup {req.agent : req \in eligible}
              /\ \A a \in DOMAIN p.accepted : r.policy.accepted[a] = p.accepted[a]
              /\ \A req \in eligible : r.policy.accepted[req.agent] = req.turn

\* the ticks a step may run at when ticks only have to be non-decreasing: the
\* tick of the latest step again, or the next one
TicksNotBefore == {now \in {time - 1, time} : now >= 0}

\* C18: a request enters waiting only in a step, from approaching, with the
\* tick of that step as its timestamp; while it stays in waiting no call,
\* re-submission included, rewrites the timestamp; so every timestamp is the
\* tick of a step already run, at most the tick of the latest one, and a
\* further step at the same or a later tick keeps that so.
C18_WaitingTimestamps ==
    /\ [][\A i \in StopSignIDs :
            LET p == intersections[i]
                waiting == p.started_waiting_at
                waiting2 == intersections'[i].started_waiting_at
            IN /\ \A r \in (DOMAIN waiting) \cap DOMAIN waiting2 :
                      waiting2[r] = waiting[r]
               /\ \A r \in (DOMAIN waiting2) \ DOMAIN waiting :
                      /\ last'.op = "step"
                      /\ r \in p.approaching_agents
                      /\ waiting2[r] = time' - 1
               /\ \A r \in DOMAIN waiting2 : waiting2[r] <= time' - 1
               /\ (last'.op = "submit_request" /\ last'.req \in DOMAIN waiting) =>
                      intersections' = intersections]_vars
    /\ [](\A i \in StopSignIDs, now \in TicksNotBefore, info \in AgentInfos :
            LET waiting == intersections[i].started_waiting_at
                r == StopSignStep(intersections[i], now, info)
            IN \A req \in DOMAIN r.policy.started_waiting_at :
                 r.policy.started_waiting_at[req] =
                     IF req \in DOMAIN waiting THEN waiting[req] ELSE now)

\* C18 witness: a request that has been waiting since tick 0, over a later
\* step, was submitted again and still carries the timestamp 0.
C18_Witness ==
    /\ last.op = "submit_request"
    /\ time >= 2
    /\ LET p == intersections[last.req.turn.parent]
       IN /\ p.kind = "StopSign"
          /\ last.req \in DOMAIN p.started_waiting_at
          /\ p.started_waiting_at[last.req] = 0

\* e comes before f in an events vector: smaller intersection first, then
\* smaller agent, then smaller turn
EventBefore(e, f) ==
    \/ e.turn.parent < f.turn.parent
    \/ /\ e.turn.parent = f.turn.parent
       /\ \/ e.agent < f.agent
          \/ e.agent = f.agent /\ e.turn.lane < f.turn.lane

EventsAscending(evs) ==
    \A m \in DOMAIN evs, n \in DOMAIN evs : m < n => EventBefore(evs[m], evs[n])

\* C19: a step call that completes leaves every intersection as one step of
\* its policy on its entry state leaves it, its events are those of the
\* policies, and they stand in ascending order of intersection id and,
\* within an intersection, in ascending Request order.
C19_EventOrder ==
    /\ [][(last'.op = "step" /\ ~panicked') => EventsAscending(events')]_vars
    /\ [](\A now \in TicksFromNow, info \in AgentInfos, cycles \in CycleChoices :
            LET r == step(intersections, now, cycles, info)
            IN ~r.panic =>
                 /\ EventsAscending(r.events)
                 /\ \A i \in IntersectionIDs :
                      LET one == PolicyStep(intersections[i], now, cycles, info)
                      IN /\ ~one.panic
                         /\ r.intersections[i] = one.policy
                         /\ SelectSeq(r.events, LAMBDA e : e.turn.parent = i)
                                = one.events)

\* C19 witness: one step call admitted three requests, at both
\* intersections.
C19_Witness ==
    /\ last.op = "step"
    /\ Len(events) = 3
    /\ events[1].turn.parent = 0
    /\ events[3].turn.parent = 1

\* the ticks a later step of stop sign p may run at: those of TicksFromNow
\* and the ticks at which the dwell of a waiting request ends
TicksOfDwellEnd(p) ==
    TicksFromNow \cup
        {t \in {p.started_waiting_at[q] + WAIT_AT_STOP_SIGN :
                    q \in DOMAIN p.started_waiting_at} : t >= time}

\* C20 as stated: of two conflicting waiting requests of the same stop-sign
\* priority, the one that entered waiting at the earlier tick is admitted no
\* later than the other: no step admits the later one and leaves the earlier
\* one waiting.
C20_FirstComeFirstServed ==
    \A i \in StopSignIDs, info \in AgentInfos :
        LET p == intersections[i]
            waiting == p.started_waiting_at
        IN \A now \in TicksOfDwellEnd(p) :
             LET r == StopSignStep(p, now, info)
             IN \A r1 \in DOMAIN waiting, r2 \in DOMAIN waiting :
                  (/\ waiting[r1] < waiting[r2]
                   /\ get_priority(r1.turn) = get_priority(r2.turn)
                   /\ conflicts_with(r1.turn, r2.turn)) =>
                      (r2 \in EventSet(r.events) => r1 \in EventSet(r.events))

\* C21 as stated: in every state reached by calls that completed, a step of
\* any policy, at any tick and with any snapshot, passes both assertions on
\* every request it examines: the turn of the request belongs to the policy,
\* and the agent of the request has no entry in accepted.
C21_StepAssertionsHold ==
    ~panicked =>
        \A i \in IntersectionIDs, info \in AgentInfos :
            LET p == intersections[i]
            IN /\ \A req \in Pending(p) : req.turn.parent = p.id
               /\ IF p.kind = "StopSign"
                  THEN \A now \in TicksFromNow : ~StopSignStep(p, now, info).panic
                  ELSE \A cycle \in control_map.cycles :
                           ~TrafficSignalStep(p, cycle, info).panic

\* each agent has at most one request outstanding at policy p, pending or
\* accepted
OneRequestPerAgent(p) ==
    \A a \in AgentIDs :
        Cardinality({req \in Pending(p) : req.agent = a})
            + (IF a \in DOMAIN p.accepted THEN 1 ELSE 0) <= 1

\* every Stop request waiting at p has waited WAIT_AT_STOP_SIGN ticks at now
DwellsOver(p, now) ==
    \A req \in DOMAIN p.started_waiting_at : ~StillDwelling(p, req, now)

\* C22: at a stop sign where each agent has at most one outstanding request, a
\* step that finds accepted empty, has a waiting request after its promotion
\* loop, and finds the dwell of every waiting Stop request over, completes and
\* admits at least one request.
C22_StopSignProgress ==
    \A i \in StopSignIDs : \A now \in TicksOfDwellEnd(intersections[i]),
                              info \in AgentInfos :
        LET p == intersections[i]
            promoted == StopSignPromote(p, now, info)
            r == StopSignStep(p, now, info)
        IN (/\ OneRequestPerAgent(p)
            /\ DOMAIN p.accepted = {}
            /\ DOMAIN promoted.started_waiting_at # {}
            /\ DwellsOver(promoted, now)) =>
               /\ ~r.panic
               /\ r.events # <<>>
               /\ \A e \in EventSet(r.events) :
                    /\ e \in DOMAIN promoted.started_waiting_at
                    /\ e.agent \in DOMAIN r.policy.accepted
                    /\ r.policy.accepted[e.agent] = e.turn

\* C22 witness: two agents waited on conflicting Stop turns since tick 0 with
\* nothing accepted; the step at the end of both dwells, in which each of the
\* two would block the other once admitted, admitted one of them.
C22_Witness ==
    /\ last.op = "step"
    /\ ~panicked
    /\ time = WAIT_AT_STOP_SIGN + 1
    /\ \E i \in StopSignIDs :
         LET p == intersections[i]
         IN /\ OneRequestPerAgent(p)
            /\ p.approaching_agents = {}
            /\ \E pr \in ConflictingStopPairs(i) :
                 /\ events = <<pr[1]>>
                 /\ p.accepted = MapInsert(EmptyMap, pr[1].agent, pr[1].turn)
                 /\ DOMAIN p.started_waiting_at = {pr[2]}
                 /\ p.started_waiting_at[pr[2]] = 0

\* where request req stands at stop sign p
InApproaching(p, req) == req \in p.approaching_agents

InWaiting(p, req) == req \in DOMAIN p.started_waiting_at

InAccepted(p, req) ==
    req.agent \in DOMAIN p.accepted /\ p.accepted[req.agent] = req.turn

Phase(p, req) ==
    IF InAccepted(p, req) THEN "accepted"
    ELSE IF InWaiting(p, req) THEN "waiting"
    ELSE IF InApproaching(p, req) THEN "approaching"
    ELSE "absent"

\* C23: at a stop sign a request is in at most one of approaching, waiting
\* and accepted, and a call moves it only forward: from absent to approaching
\* by its own submit_request, from approaching to waiting and from waiting to
\* accepted by a step (both in one step at the earliest), from accepted to
\* absent by on_exit of its agent.  It never goes from waiting back to
\* approaching, a step admits only requests that are waiting after its
\* promotion loop, and nothing else removes a request from approaching or
\* waiting.
C23_OneWayLifecycle ==
    /\ [][\A i \in StopSignIDs : \A req \in {q \in AllRequests : q.turn.parent = i} :
            LET from == Phase(intersections[i], req)
                to == Phase(intersections'[i], req)
            IN from # to =>
                 \/ /\ from = "absent" /\ to = "approaching"
                    /\ last'.op = "submit_request" /\ last'.req = req
                 \/ /\ from = "approaching" /\ to = "waiting"
                    /\ last'.op = "step"
                 \/ /\ from \in {"approaching", "waiting"} /\ to = "accepted"
                    /\ last'.op = "step" /\ req \in EventSet(events')
                 \/ /\ from = "accepted" /\ to = "absent"
                    /\ last'.op = "on_exit" /\ last'.req.agent = req.agent]_vars
    /\ [](\A i \in StopSignIDs :
            LET p == intersections[i]
            IN /\ \A req \in AllRequests :
                    /\ ~(InApproaching(p, req) /\ InWaiting(p, req))
                    /\ ~(InApproaching(p, req) /\ InAccepted(p, req))
                    /\ ~(InWaiting(p, req) /\ InAccepted(p, req))
               /\ \A now \in TicksFromNow, info \in AgentInfos :
                    LET promoted == StopSignPromote(p, now, info)
                        r == StopSignStep(p, now, info)
                    IN /\ EventSet(r.events) \subseteq DOMAIN promoted.started_waiting_at
                       /\ \A req \in DOMAIN p.started_waiting_at :
                            InWaiting(promoted, req) /\ ~InApproaching(r.policy, req)
                       /\ \A req \in Pending(p) :
                            ~r.panic => Phase(r.policy, req) # "absent")

\* C23 witness: a Stop request that was promoted at tick 0 and admitted at
\* the end of its dwell has left by on_exit and is absent again, while the
\* request of another agent, promoted at tick 1, is still waiting.
C23_Witness ==
    /\ last.op = "on_exit"
    /\ last.ret = "Ok"
    /\ time = WAIT_AT_STOP_SIGN + 1
    /\ \E i \in StopSignIDs :
         LET p == intersections[i]
         IN /\ last.req.turn.parent = i
            /\ get_priority(last.req.turn) = Stop
            /\ Phase(p, last.req) = "absent"
            /\ \E q \in DOMAIN p.started_waiting_at :
                 q.agent # last.req.agent /\ p.started_waiting_at[q] = 1

\* the three tests of the admission loop on a request req that is waiting
\* after the promotion loop of a stop-sign step with result r
PassesAdmissionTests(p, promoted, r, req, now) ==
    /\ \A t \in AcceptedWhenExamined(p, r, req) : ~conflicts_with(req.turn, t)
    /\ ~conflicts_with_waiting_with_higher_priority(promoted, req.turn)
    /\ ~StillDwelling(promoted, req, now)

\* C24 as stated: for a request that is waiting when a stop-sign step begins,
\* the step admits it exactly when it conflicts with no accepted turn and with
\* no waiting request of higher priority and its dwell is over, whether or not
\* its agent is a leader or stopped in that step; otherwise it stays waiting;
\* it never goes back to approaching.
C24_AdmissionIgnoresReadiness ==
    \A i \in StopSignIDs : \A now \in TicksOfDwellEnd(intersections[i]),
                              info \in AgentInfos :
        LET p == intersections[i]
            promoted == StopSignPromote(p, now, info)
            r == StopSignStep(p, now, info)
        IN \A req \in DOMAIN p.started_waiting_at :
             /\ ~InApproaching(r.policy, req)
             /\ IF PassesAdmissionTests(p, promoted, r, req, now)
                THEN /\ ~r.panic
                     /\ req \in EventSet(r.events)
                     /\ InAccepted(r.policy, req)
                ELSE /\ req \notin EventSet(r.events)
                     /\ ~r.panic => InWaiting(r.policy, req)

====
